---- MODULE Spec2Model ----
(***************************************************************************)
(* The transactional artifact store of cvmfs-ephemeral                     *)
(* (src/server/src/main.py): upload, update_ttl, delete and clean, each a  *)
(* begin / mutate / publish-or-abort sequence on a CVMFS repository under  *)
(* one process-wide lock, with the TTL index kept in ttl.json inside the   *)
(* repository.  Every request is a process that walks through its handler  *)
(* one filesystem or subprocess step at a time; the async handlers share   *)
(* the single event-loop thread, the sync handlers (clean, gc and          *)
(* housekeeping, which calls clean per repository and then gc) run on      *)
(* worker threads.  list_files reads the repository directory without      *)
(* lock or transaction.                                                    *)
(***************************************************************************)
EXTENDS Integers, Sequences, FiniteSets, TLC

\* ---------------------------------------------------------------- constants
TTL_FILENAME == "ttl.json"
PATH_BLACKLIST == {TTL_FILENAME}

\* ------------------------------------------------------------------- bounds
MaxTime == 1    \* time.time() takes the values 0..MaxTime
MaxCalls == 3   \* requests dispatched in one run

Procs == {"p1", "p2"}          \* requests in flight at the same time
NoProc == "nobody"
Repos == {"r1", "r2"}          \* directories that exist under /cvmfs
SeqRepoArgs == {"r1", "r0"}    \* r0: a repo_name with no directory under /cvmfs
ConcNames == {"a"}
Names == {"a", "b"}
NameArgs == Names \cup {TTL_FILENAME}

NoName == "-"
NoContent == "-"

\* HTTP outcomes of a request
OK == "200"
FORBIDDEN == "400"
NOTFOUND == "404"
CONFLICT == "409"
FAILURE == "500"
NOOP == "200 No TTL file found. Skipping clean up."
PASS == "pass"                 \* the pre-checks raised nothing
NoResult == "none"

VARIABLES
  tree,        \* tree[r]: /cvmfs/<r> as the server sees it (published revision + open transaction)
  pub,         \* pub[r]: the last published revision of r
  txn,         \* txn[r]: r is in a cvmfs_server transaction
  lock,        \* holder of transaction_lock, or NoProc
  loop,        \* the coroutine running on the event-loop thread, or NoProc
  now,         \* time.time()
  ncalls,      \* requests dispatched so far
  pc,          \* pc[p]: where request p is in its handler
  req,         \* req[p]: the handler and its arguments
  expires_at,  \* expires_at[p]: upload's local expires_at
  counts,      \* counts[p]: clean's locals cleaned and errors
  result,      \* result[p]: the response of p's request
  trace,       \* trace[p]: the external primitives p's request has issued, in order
  pre,         \* pre[p]: the published revision of p's repository when p's request was dispatched
  listing,     \* listing[p]: the "files" of list_files' response
  hk           \* hk[p]: the run of housekeeping() that p is in: the repositories still to
               \* sweep and the calls (clean per repository, gc) that have returned

vars == <<tree, pub, txn, lock, loop, now, ncalls, pc, req, expires_at, counts, result, trace,
          pre, listing, hk>>

\* ------------------------------------------------------------ the filesystem
\* A directory entry: nothing, a regular file or a directory tree.
NoEntry == <<"none", NoContent>>
EmptyFile == <<"file", "">>           \* dest.open("wb"): created, nothing written yet
FileOf(c) == <<"file", c>>            \* f.write(await file.read())
Unpacked(c) == <<"dir", c>>           \* docker_unpack(file.file, dest)
IsDir(v) == v[1] = "dir"
IsFile(v) == v[1] = "file"

\* ttl.json: absent, or a JSON object name -> expires_at
EmptyEntries == [n \in {} |-> 0]
NoIndex == [exists |-> FALSE, entries |-> EmptyEntries]
EmptyTree == [files |-> [n \in Names |-> NoEntry], ttl |-> NoIndex]

Put(f, k, v) == [x \in (DOMAIN f) \cup {k} |-> IF x = k THEN v ELSE f[x]]
Del(f, k) == [x \in (DOMAIN f) \ {k} |-> f[x]]

\* Path(f"/cvmfs/{repo_name}").exists()
RepoExists(r) == r \in Repos

\* Path(f"/cvmfs/{repo_name}/{name}").exists()
PathExists(r, n) ==
  /\ RepoExists(r)
  /\ IF n = TTL_FILENAME THEN tree[r].ttl.exists
     ELSE n \in Names /\ tree[r].files[n] # NoEntry

\* ttl_path.exists()
TtlExists(r) == PathExists(r, TTL_FILENAME)

\* the published revision of r (nothing for a repository that does not exist)
Published(r) == IF RepoExists(r) THEN pub[r] ELSE EmptyTree

\* unlink / rmtree of one entry
Removed(t, n) == [t EXCEPT !.files[n] = NoEntry]
\* ttl_path.write_text(json.dumps(ttl_obj))
IndexSaved(t, e) == [t EXCEPT !.ttl = [exists |-> TRUE, entries |-> e]]
\* json.loads(ttl_path.read_text()) if ttl_path.exists() else {}
IndexOrEmpty(t) == IF t.ttl.exists THEN t.ttl.entries ELSE EmptyEntries

\* ------------------------------------------------------------- the requests
\* each client uploads a file body of its own and asks for a lifetime of its own:
\* p1 for one that has run out at the next tick, p2 for one that outlasts the run
ContentOf(p) == IF p = "p1" THEN "c1" ELSE "c2"
TtlOf(p) == IF p = "p1" THEN 0 ELSE MaxTime + 1

UploadReqs(p, repos, names) ==
  [op : {"upload"}, repo : repos, name : names, overwrite : BOOLEAN,
   unpack : BOOLEAN, content : {ContentOf(p)}, ttl_s : {TtlOf(p)}]
UpdateTtlReqs(p, repos, names) ==
  [op : {"update_ttl"}, repo : repos, name : names, overwrite : {FALSE},
   unpack : {FALSE}, content : {NoContent}, ttl_s : {TtlOf(p)}]
DeleteReqs(repos, names) ==
  [op : {"delete"}, repo : repos, name : names, overwrite : {FALSE},
   unpack : {FALSE}, content : {NoContent}, ttl_s : {0}]
CleanReqs(repos) ==
  [op : {"clean"}, repo : repos, name : {NoName}, overwrite : {FALSE},
   unpack : {FALSE}, content : {NoContent}, ttl_s : {0}]
RequestsOf(p, repos, names) ==
  UploadReqs(p, repos, names) \cup UpdateTtlReqs(p, repos, names)
    \cup DeleteReqs(repos, names) \cup CleanReqs(repos)
ListReqs(repos) ==
  [op : {"list_files"}, repo : repos, name : {NoName}, overwrite : {FALSE},
   unpack : {FALSE}, content : {NoContent}, ttl_s : {0}]
GcReq ==
  [op |-> "gc", repo |-> "r0", name |-> NoName, overwrite |-> FALSE,
   unpack |-> FALSE, content |-> NoContent, ttl_s |-> 0]
HousekeepingReq == [GcReq EXCEPT !.op = "housekeeping"]
NoReq ==
  [op |-> "none", repo |-> "r0", name |-> NoName, overwrite |-> FALSE,
   unpack |-> FALSE, content |-> NoContent, ttl_s |-> 0]

\* requests served one after another: every repository argument and every name
SeqRequests(p) == RequestsOf(p, SeqRepoArgs, NameArgs)
\* requests served at the same time: the existing repositories, one artifact name
ConcRequests(p) == {r \in RequestsOf(p, Repos, ConcNames) : ~r.unpack}

\* `async def` handlers run on the event-loop thread, `def` handlers on a worker thread
Async(op) == op \in {"upload", "update_ttl", "delete", "list_files"}
Mutating(op) == op \in {"upload", "update_ttl", "delete", "clean"}

\* ----------------------------------------------- the checks before the lock
\* faulty variant: the test for an existing dest is missing
UploadCheck_NoConflict(r) ==
  IF r.name \in PATH_BLACKLIST THEN FORBIDDEN
  ELSE IF ~RepoExists(r.repo) THEN NOTFOUND
  ELSE PASS

\* faulty variant: the blacklist is tested after the repository and dest
UploadCheck_BlacklistLast(r) ==
  IF ~RepoExists(r.repo) THEN NOTFOUND
  ELSE IF ~r.overwrite /\ PathExists(r.repo, r.name) THEN CONFLICT
  ELSE IF r.name \in PATH_BLACKLIST THEN FORBIDDEN
  ELSE PASS

UploadCheck(r) ==
  IF r.name \in PATH_BLACKLIST THEN FORBIDDEN
  ELSE IF ~RepoExists(r.repo) THEN NOTFOUND
  ELSE IF ~r.overwrite /\ PathExists(r.repo, r.name) THEN CONFLICT
  ELSE PASS

UpdateTtlCheck(r) ==
  IF r.name \in PATH_BLACKLIST THEN FORBIDDEN
  ELSE IF ~PathExists(r.repo, r.name) THEN NOTFOUND
  ELSE PASS

DeleteCheck(r) ==
  IF r.name \in PATH_BLACKLIST THEN FORBIDDEN
  ELSE IF ~PathExists(r.repo, r.name) THEN NOTFOUND
  ELSE PASS

\* faulty variant: the early return for a missing ttl.json is missing
CleanCheck_NoEarlyReturn(r) == PASS

CleanCheck(r) == IF ~TtlExists(r.repo) THEN NOOP ELSE PASS

PreCheck(r) ==
  CASE r.op = "upload" -> UploadCheck(r)
    [] r.op = "update_ttl" -> UpdateTtlCheck(r)
    [] r.op = "delete" -> DeleteCheck(r)
    [] OTHER -> CleanCheck(r)

\* ------------------------------------------------- the transaction bodies
\* upload, lines 181-185: remove what is at dest
UploadCleared(t, r) == Removed(t, r.name)
\* upload, line 193: dest.open("wb")
UploadOpened(t, r) == [t EXCEPT !.files[r.name] = EmptyFile]
\* upload, lines 190 / 194: the content is at dest
UploadStored(t, r) ==
  [t EXCEPT !.files[r.name] = IF r.unpack THEN Unpacked(r.content) ELSE FileOf(r.content)]
\* upload, lines 199-201: the index entry of the name is set
UploadIndexed(t, r, exp) == IndexSaved(t, Put(IndexOrEmpty(t), r.name, [expires_at |-> exp]))

\* update_ttl, lines 248-250 (ttl.json is read without an existence test)
UpdateTtlCanRun(t, r) == t.ttl.exists
\* faulty variant: the entry is written into an empty object, not into the loaded index
UpdateTtlDone_DropsOthers(t, r, time) ==
  IndexSaved(t, Put(EmptyEntries, r.name, [expires_at |-> time + r.ttl_s]))
UpdateTtlDone(t, r, time) ==
  IndexSaved(t, Put(t.ttl.entries, r.name, [expires_at |-> time + r.ttl_s]))

\* delete, lines 309-312: unlink of a missing path raises
DeleteCanRemove(t, r) == t.files[r.name] # NoEntry
\* delete, lines 315-317: read_text of a missing ttl.json and del of a missing key raise
DeleteCanUnindex(t, r) == t.ttl.exists /\ r.name \in DOMAIN t.ttl.entries
\* faulty variant: delete leaves the index as it is
DeleteDone_KeepsEntry(t, r) == Removed(t, r.name)
DeleteDone(t, r) == IndexSaved(Removed(t, r.name), Del(t.ttl.entries, r.name))

\* faulty variant: an entry that expires now counts as expired
IsExpired_NotStrict(ttl, time) == ttl.expires_at <= time
\* clean, line 356: ttl["expires_at"] < time.time()
IsExpired(ttl, time) == ttl.expires_at < time
Expired(t, time) == {n \in DOMAIN t.ttl.entries : IsExpired(t.ttl.entries[n], time)}
\* clean, lines 358-366
CleanedNames(t, time) == {n \in Expired(t, time) : n \in Names /\ t.files[n] # NoEntry}
ErrorNames(t, time) == Expired(t, time) \ CleanedNames(t, time)
\* clean, lines 357-362: the targets S are deleted, the index is not yet written
CleanInterrupted(t, S) ==
  [t EXCEPT !.files = [n \in Names |-> IF n \in S THEN NoEntry ELSE t.files[n]]]
\* clean, lines 354-369: the tree after the loop and the write of the index
CleanDone(t, time) ==
  IndexSaved(
    [t EXCEPT !.files = [n \in Names |-> IF n \in CleanedNames(t, time) THEN NoEntry ELSE t.files[n]]],
    [n \in (DOMAIN t.ttl.entries) \ Expired(t, time) |-> t.ttl.entries[n]])

\* ---------------------------------------------------------------- the state
\* p is not in a run of housekeeping()
NoRun == [active |-> FALSE, todo |-> {}, done |-> <<>>]

\* the server has started and no request has arrived
NoRequests ==
  /\ txn = [r \in Repos |-> FALSE]
  /\ lock = NoProc
  /\ loop = NoProc
  /\ ncalls = 0
  /\ pc = [p \in Procs |-> "idle"]
  /\ req = [p \in Procs |-> NoReq]
  /\ expires_at = [p \in Procs |-> 0]
  /\ counts = [p \in Procs |-> [cleaned |-> 0, errors |-> 0]]
  /\ result = [p \in Procs |-> NoResult]
  /\ trace = [p \in Procs |-> <<>>]
  /\ pre = [p \in Procs |-> EmptyTree]
  /\ listing = [p \in Procs |-> {}]
  /\ hk = [p \in Procs |-> NoRun]

\* every repository is as cvmfs_server mkfs left it: nothing published
Init ==
  /\ tree = [r \in Repos |-> EmptyTree]
  /\ pub = tree
  /\ now = 0
  /\ NoRequests

\* the thread of p may run: a coroutine needs the event loop to itself
Running(p) == Async(req[p].op) => loop = p

Goto(p, label) == pc' = [pc EXCEPT ![p] = label]
\* subprocess.run([...], check=True) of an external primitive, and whether it succeeded
Issue(p, primitive, ok) == trace' = [trace EXCEPT ![p] = Append(@, <<primitive, ok>>)]
Issued(p, primitive) == \E i \in DOMAIN trace[p] : trace[p][i][1] = primitive
Succeeded(p, primitive) == \E i \in DOMAIN trace[p] : trace[p][i] = <<primitive, TRUE>>
Respond(p, code) == result' = [result EXCEPT ![p] = code]

\* time passes
Tick ==
  /\ now < MaxTime
  /\ now' = now + 1
  /\ UNCHANGED <<tree, pub, txn, lock, loop, ncalls, pc, req, expires_at, counts, result, trace, pre, hk, listing>>

\* a request r is dispatched to its handler
Dispatch(p, r) ==
  /\ pc[p] = "idle"
  /\ ncalls < MaxCalls
  /\ Async(r.op) => loop = NoProc
  /\ loop' = IF Async(r.op) THEN p ELSE loop
  /\ req' = [req EXCEPT ![p] = r]
  /\ pre' = [pre EXCEPT ![p] = Published(r.repo)]
  /\ ncalls' = ncalls + 1
  /\ Goto(p, "check")
  /\ UNCHANGED <<tree, pub, txn, lock, now, expires_at, counts, result, trace, hk, listing>>

\* requests arrive while others are being served
Start(p) == \E r \in ConcRequests(p) : Dispatch(p, r)

\* requests arrive one after another
StartSeq(p) ==
  /\ \A q \in Procs : pc[q] = "idle"
  /\ \E r \in SeqRequests(p) : Dispatch(p, r)

\* the checks before `with transaction_lock`; upload also computes expires_at (line 172)
Check(p) ==
  /\ pc[p] = "check"
  /\ Running(p)
  /\ LET code == PreCheck(req[p]) IN
       IF code = PASS
       THEN /\ Goto(p, "lock")
            /\ expires_at' = [expires_at EXCEPT ![p] =
                 IF req[p].op = "upload" THEN now + req[p].ttl_s ELSE 0]
            /\ UNCHANGED result
       ELSE /\ Goto(p, "return")
            /\ Respond(p, code)
            /\ UNCHANGED expires_at
  /\ UNCHANGED <<tree, pub, txn, lock, loop, now, ncalls, req, counts, trace, pre, hk, listing>>

\* faulty variant: the critical section is entered without waiting for the lock
Acquire_NoWait(p) ==
  /\ pc[p] = "lock"
  /\ Running(p)
  /\ lock' = p
  /\ Goto(p, "begin")
  /\ UNCHANGED <<tree, pub, txn, loop, now, ncalls, req, expires_at, counts, result, trace, pre, hk, listing>>

\* `with transaction_lock:` a blocking acquire on the calling thread
Acquire(p) ==
  /\ pc[p] = "lock"
  /\ Running(p)
  /\ lock = NoProc
  /\ lock' = p
  /\ Goto(p, "begin")
  /\ UNCHANGED <<tree, pub, txn, loop, now, ncalls, req, expires_at, counts, result, trace, pre, hk, listing>>

\* faulty variant: begin is inside the try block, so its failure goes to the except block
Begin_InsideTry(p) ==
  /\ pc[p] = "begin"
  /\ Running(p)
  /\ \/ /\ ~txn[req[p].repo]
        /\ Issue(p, "begin", TRUE)
        /\ txn' = [txn EXCEPT ![req[p].repo] = TRUE]
        /\ Goto(p, "body")
     \/ /\ Issue(p, "begin", FALSE)
        /\ Goto(p, "abort")
        /\ UNCHANGED txn
  /\ UNCHANGED <<tree, pub, lock, loop, now, ncalls, req, expires_at, counts, result, pre, hk, listing>>

\* cvmfs_server transaction <repo>, check=True: it fails on a repository already
\* in a transaction and may fail for its own reasons; a failure leaves the with block
Begin(p) ==
  /\ pc[p] = "begin"
  /\ Running(p)
  /\ \/ /\ ~txn[req[p].repo]
        /\ Issue(p, "begin", TRUE)
        /\ txn' = [txn EXCEPT ![req[p].repo] = TRUE]
        /\ Goto(p, "body")
        /\ UNCHANGED result
     \/ /\ Issue(p, "begin", FALSE)
        /\ Goto(p, "exit")
        /\ Respond(p, FAILURE)
        /\ UNCHANGED txn
  /\ UNCHANGED <<tree, pub, lock, loop, now, ncalls, req, expires_at, counts, pre, hk, listing>>

\* faulty variant: the publish after the try block is missing
Completed_NoPublish(p) == Goto(p, "exit")

\* the body ran to its end: control goes to the publish after the try block
Completed(p) == Goto(p, "publish")

\* faulty variant: an exception of the body leaves the with block without the abort
Raised_NoAbort(p) == Goto(p, "exit")

\* the body raised: control goes to the except block
Raised(p) == Goto(p, "abort")

\* upload, lines 180-193: remove dest, then unpack, or open dest and await the read
\* of the upload (which may hand the event loop to another coroutine)
UploadBody(p) ==
  /\ pc[p] = "body"
  /\ req[p].op = "upload"
  /\ Running(p)
  /\ LET r == req[p]
         t == tree[r.repo]
     IN \/ /\ r.unpack
           /\ tree' = [tree EXCEPT ![r.repo] =
                UploadIndexed(UploadStored(UploadCleared(t, r), r), r, expires_at[p])]
           /\ Completed(p)
           /\ UNCHANGED loop
        \/ /\ ~r.unpack
           /\ tree' = [tree EXCEPT ![r.repo] = UploadOpened(UploadCleared(t, r), r)]
           /\ Goto(p, "read")
           /\ loop' \in {p, NoProc}
        \/ /\ tree' = [tree EXCEPT ![r.repo] = UploadCleared(t, r)]
           /\ Raised(p)
           /\ UNCHANGED loop
  /\ UNCHANGED <<pub, txn, lock, now, ncalls, req, expires_at, counts, result, trace, pre, hk, listing>>

\* upload, lines 194-201: the coroutine is resumed, the content is written and the
\* index entry set
UploadWrite(p) ==
  /\ pc[p] = "read"
  /\ loop \in {p, NoProc}
  /\ loop' = p
  /\ LET r == req[p]
         t == tree[r.repo]
     IN \/ /\ tree' = [tree EXCEPT ![r.repo] = UploadIndexed(UploadStored(t, r), r, expires_at[p])]
           /\ Completed(p)
        \/ /\ tree' = [tree EXCEPT ![r.repo] = UploadStored(t, r)]
           /\ Raised(p)
  /\ UNCHANGED <<pub, txn, lock, now, ncalls, req, expires_at, counts, result, trace, pre, hk, listing>>

\* update_ttl, lines 246-250
UpdateTtlBody(p) ==
  /\ pc[p] = "body"
  /\ req[p].op = "update_ttl"
  /\ Running(p)
  /\ LET r == req[p]
         t == tree[r.repo]
     IN \/ /\ UpdateTtlCanRun(t, r)
           /\ tree' = [tree EXCEPT ![r.repo] = UpdateTtlDone(t, r, now)]
           /\ Completed(p)
        \/ /\ Raised(p)
           /\ UNCHANGED tree
  /\ UNCHANGED <<pub, txn, lock, loop, now, ncalls, req, expires_at, counts, result, trace, pre, hk, listing>>

\* delete, lines 307-317
DeleteBody(p) ==
  /\ pc[p] = "body"
  /\ req[p].op = "delete"
  /\ Running(p)
  /\ LET r == req[p]
         t == tree[r.repo]
     IN \/ /\ DeleteCanRemove(t, r)
           /\ DeleteCanUnindex(t, r)
           /\ tree' = [tree EXCEPT ![r.repo] = DeleteDone(t, r)]
           /\ Completed(p)
        \/ /\ DeleteCanRemove(t, r)
           /\ tree' = [tree EXCEPT ![r.repo] = Removed(t, r.name)]
           /\ Raised(p)
        \/ /\ Raised(p)
           /\ UNCHANGED tree
  /\ UNCHANGED <<pub, txn, lock, loop, now, ncalls, req, expires_at, counts, result, trace, pre, hk, listing>>

\* clean, lines 353-369; an exception (of read_text, of an unlink or rmtree, of
\* write_text) leaves the loop after some of the expired targets were deleted and
\* before the index is written; the locals cleaned and errors are lost with it
CleanBody(p) ==
  /\ pc[p] = "body"
  /\ req[p].op = "clean"
  /\ LET r == req[p]
         t == tree[r.repo]
     IN \/ /\ t.ttl.exists
           /\ tree' = [tree EXCEPT ![r.repo] = CleanDone(t, now)]
           /\ counts' = [counts EXCEPT ![p] =
                [cleaned |-> Cardinality(CleanedNames(t, now)),
                 errors |-> Cardinality(ErrorNames(t, now))]]
           /\ Completed(p)
        \/ /\ \E S \in SUBSET CleanedNames(t, now) :
                tree' = [tree EXCEPT ![r.repo] = CleanInterrupted(t, S)]
           /\ Raised(p)
           /\ UNCHANGED counts
  /\ UNCHANGED <<pub, txn, lock, loop, now, ncalls, req, expires_at, result, trace, pre, hk, listing>>

\* faulty variant: the except block publishes the transaction instead of aborting it
Abort_Publishes(p) ==
  /\ pc[p] = "abort"
  /\ Running(p)
  /\ LET r == req[p].repo
     IN \/ /\ Issue(p, "abort", TRUE)
           /\ pub' = [pub EXCEPT ![r] = tree[r]]
           /\ txn' = [txn EXCEPT ![r] = FALSE]
        \/ /\ Issue(p, "abort", FALSE)
           /\ UNCHANGED <<pub, txn>>
  /\ Respond(p, FAILURE)
  /\ Goto(p, "exit")
  /\ UNCHANGED <<tree, lock, loop, now, ncalls, req, expires_at, counts, pre, hk, listing>>

\* cvmfs_server abort <repo> -f, then raise HTTPException(500); a failing abort
\* raises out of the except block
Abort(p) ==
  /\ pc[p] = "abort"
  /\ Running(p)
  /\ LET r == req[p].repo
     IN \/ /\ Issue(p, "abort", TRUE)
           /\ tree' = [tree EXCEPT ![r] = pub[r]]
           /\ txn' = [txn EXCEPT ![r] = FALSE]
        \/ /\ Issue(p, "abort", FALSE)
           /\ UNCHANGED <<tree, txn>>
  /\ Respond(p, FAILURE)
  /\ Goto(p, "exit")
  /\ UNCHANGED <<pub, lock, loop, now, ncalls, req, expires_at, counts, pre, hk, listing>>

\* faulty variant: the call of notify after the publish is missing
Publish_NoNotify(p) ==
  /\ pc[p] = "publish"
  /\ Running(p)
  /\ LET r == req[p].repo
     IN \/ /\ Issue(p, "publish", TRUE)
           /\ pub' = [pub EXCEPT ![r] = tree[r]]
           /\ txn' = [txn EXCEPT ![r] = FALSE]
           /\ Respond(p, OK)
        \/ /\ Issue(p, "publish", FALSE)
           /\ Respond(p, FAILURE)
           /\ UNCHANGED <<pub, txn>>
  /\ Goto(p, "exit")
  /\ UNCHANGED <<tree, lock, loop, now, ncalls, req, expires_at, counts, pre, hk, listing>>

\* cvmfs_server publish <repo>; a failing publish raises out of the with block
Publish(p) ==
  /\ pc[p] = "publish"
  /\ Running(p)
  /\ LET r == req[p].repo
     IN \/ /\ Issue(p, "publish", TRUE)
           /\ pub' = [pub EXCEPT ![r] = tree[r]]
           /\ txn' = [txn EXCEPT ![r] = FALSE]
           /\ Goto(p, "notify")
           /\ UNCHANGED result
        \/ /\ Issue(p, "publish", FALSE)
           /\ Respond(p, FAILURE)
           /\ Goto(p, "exit")
           /\ UNCHANGED <<pub, txn>>
  /\ UNCHANGED <<tree, lock, loop, now, ncalls, req, expires_at, counts, pre, hk, listing>>

\* faulty variant: the test for the repository directory is inverted
Notify_InvertedRepoCheck(p) ==
  /\ pc[p] = "notify"
  /\ Running(p)
  /\ IF RepoExists(req[p].repo)
     THEN /\ Respond(p, NOTFOUND)
          /\ UNCHANGED trace
     ELSE \/ /\ Issue(p, "notify", TRUE)
             /\ Respond(p, OK)
          \/ /\ Issue(p, "notify", FALSE)
             /\ Respond(p, FAILURE)
  /\ Goto(p, "exit")
  /\ UNCHANGED <<tree, pub, txn, lock, loop, now, ncalls, req, expires_at, counts, pre, hk, listing>>

\* notify(repo_name), lines 390-415, called inside the with block
Notify(p) ==
  /\ pc[p] = "notify"
  /\ Running(p)
  /\ IF ~RepoExists(req[p].repo)
     THEN /\ Respond(p, NOTFOUND)
          /\ UNCHANGED trace
     ELSE \/ /\ Issue(p, "notify", TRUE)
             /\ Respond(p, OK)
          \/ /\ Issue(p, "notify", FALSE)
             /\ Respond(p, FAILURE)
  /\ Goto(p, "exit")
  /\ UNCHANGED <<tree, pub, txn, lock, loop, now, ncalls, req, expires_at, counts, pre, hk, listing>>

\* the with block is left (by its end or by an exception): the lock is released
Exit(p) ==
  /\ pc[p] = "exit"
  /\ Running(p)
  /\ lock' = IF lock = p THEN NoProc ELSE lock
  /\ Goto(p, "return")
  /\ UNCHANGED <<tree, pub, txn, loop, now, ncalls, req, expires_at, counts, result, trace, pre, hk, listing>>

\* the response (or the HTTP error) goes to the caller and the handler's frame is gone
Return(p) ==
  /\ pc[p] = "return"
  /\ Running(p)
  /\ ~hk[p].active
  /\ loop' = IF loop = p THEN NoProc ELSE loop
  /\ Goto(p, "idle")
  /\ req' = [req EXCEPT ![p] = NoReq]
  /\ pre' = [pre EXCEPT ![p] = EmptyTree]
  /\ result' = [result EXCEPT ![p] = NoResult]
  /\ trace' = [trace EXCEPT ![p] = <<>>]
  /\ expires_at' = [expires_at EXCEPT ![p] = 0]
  /\ counts' = [counts EXCEPT ![p] = [cleaned |-> 0, errors |-> 0]]
  /\ listing' = [listing EXCEPT ![p] = {}]
  /\ UNCHANGED <<tree, pub, txn, lock, now, ncalls, hk>>

Step(p) ==
  \/ Check(p)
  \/ Acquire(p)
  \/ Begin(p)
  \/ UploadBody(p)
  \/ UploadWrite(p)
  \/ UpdateTtlBody(p)
  \/ DeleteBody(p)
  \/ CleanBody(p)
  \/ Abort(p)
  \/ Publish(p)
  \/ Notify(p)
  \/ Exit(p)
  \/ Return(p)

Next == Tick \/ \E p \in Procs : Start(p) \/ Step(p)

Spec == Init /\ [][Next]_vars

NextSeq == Tick \/ \E p \in Procs : StartSeq(p) \/ Step(p)

SeqSpec == Init /\ [][NextSeq]_vars

\* ------------------------------------------- a repository with other content
\* r1 holds an artifact that was published by another publisher of the
\* repository (through the gateway), not uploaded through this server: it has
\* no ttl.json
InitForeign ==
  /\ tree = [r \in Repos |->
              IF r = "r1" THEN [EmptyTree EXCEPT !.files["a"] = FileOf("c0")] ELSE EmptyTree]
  /\ pub = tree
  /\ now = 0
  /\ NoRequests

ForeignSpec == InitForeign /\ [][NextSeq]_vars

\* ------------------------------------------------------------------ listing
\* list_files, line 287: [file.name for file in repo_path.iterdir() if file.is_file()]
FilesIn(t) ==
  {n \in Names : IsFile(t.files[n])} \cup (IF t.ttl.exists THEN {TTL_FILENAME} ELSE {})

\* GET /repos/{repo_name} is dispatched (a coroutine: it needs the event loop)
StartList(p) ==
  /\ pc[p] = "idle"
  /\ ncalls < MaxCalls
  /\ loop = NoProc
  /\ loop' = p
  /\ \E r \in ListReqs(SeqRepoArgs) :
       /\ req' = [req EXCEPT ![p] = r]
       /\ pre' = [pre EXCEPT ![p] = Published(r.repo)]
  /\ ncalls' = ncalls + 1
  /\ Goto(p, "list")
  /\ UNCHANGED <<tree, pub, txn, lock, now, expires_at, counts, result, trace, hk, listing>>

\* list_files, lines 283-287: no lock, no transaction
ListFiles(p) ==
  /\ pc[p] = "list"
  /\ Running(p)
  /\ IF ~RepoExists(req[p].repo)
     THEN /\ Respond(p, NOTFOUND)
          /\ UNCHANGED listing
     ELSE /\ Respond(p, OK)
          /\ listing' = [listing EXCEPT ![p] = FilesIn(tree[req[p].repo])]
  /\ Goto(p, "return")
  /\ UNCHANGED <<tree, pub, txn, lock, loop, now, ncalls, req, expires_at, counts, trace, pre, hk>>

\* the requests of SeqSpec, with listings in between
NextList == Tick \/ \E p \in Procs : StartSeq(p) \/ StartList(p) \/ Step(p) \/ ListFiles(p)

ListSpec == Init /\ [][NextList]_vars

\* ------------------------------------------------------- gc and housekeeping
\* the frame of a call that housekeeping() makes, or of the next request
Cleared(p) ==
  /\ result' = [result EXCEPT ![p] = NoResult]
  /\ trace' = [trace EXCEPT ![p] = <<>>]
  /\ counts' = [counts EXCEPT ![p] = [cleaned |-> 0, errors |-> 0]]

\* POST /gc is dispatched to a worker thread
StartGc(p) ==
  /\ pc[p] = "idle"
  /\ ncalls < MaxCalls
  /\ req' = [req EXCEPT ![p] = GcReq]
  /\ ncalls' = ncalls + 1
  /\ Goto(p, "gclock")
  /\ UNCHANGED <<tree, pub, txn, lock, loop, now, expires_at, counts, result, trace, pre, hk, listing>>

\* faulty variant: gc runs the primitive without taking the lock
GcAcquire_NoLock(p) ==
  /\ pc[p] = "gclock"
  /\ Goto(p, "gc")
  /\ UNCHANGED <<tree, pub, txn, lock, loop, now, ncalls, req, expires_at, counts, result, trace, pre, hk, listing>>

\* gc, line 424: `with transaction_lock:`
GcAcquire(p) ==
  /\ pc[p] = "gclock"
  /\ lock = NoProc
  /\ lock' = p
  /\ Goto(p, "gc")
  /\ UNCHANGED <<tree, pub, txn, loop, now, ncalls, req, expires_at, counts, result, trace, pre, hk, listing>>

\* gc, line 427: cvmfs_server gc -r 0 -f, check=True; it collects unreferenced
\* data and leaves working trees and published revisions as they are
Gc(p) ==
  /\ pc[p] = "gc"
  /\ \/ /\ Issue(p, "gc", TRUE)
        /\ Respond(p, OK)
     \/ /\ Issue(p, "gc", FALSE)
        /\ Respond(p, FAILURE)
  /\ Goto(p, "exit")
  /\ UNCHANGED <<tree, pub, txn, lock, loop, now, ncalls, req, expires_at, counts, pre, hk, listing>>

\* POST /housekeeping, or the scheduler's job, starts a run on a worker thread:
\* Path("/cvmfs").iterdir() is still to yield every repository directory
StartHousekeeping(p) ==
  /\ pc[p] = "idle"
  /\ ncalls < MaxCalls
  /\ req' = [req EXCEPT ![p] = HousekeepingReq]
  /\ hk' = [hk EXCEPT ![p] = [active |-> TRUE, todo |-> Repos, done |-> <<>>]]
  /\ ncalls' = ncalls + 1
  /\ Goto(p, "hk")
  /\ UNCHANGED <<tree, pub, txn, lock, loop, now, expires_at, counts, result, trace, pre, listing>>

\* housekeeping, lines 441-445: clean(repo_name) for the next directory that
\* iterdir() yields (in any order), or gc() when there is none left
HousekeepingCall(p) ==
  /\ pc[p] = "hk"
  /\ IF hk[p].todo # {}
     THEN \E r \in hk[p].todo :
            /\ hk' = [hk EXCEPT ![p].todo = @ \ {r}]
            /\ \E c \in CleanReqs({r}) : req' = [req EXCEPT ![p] = c]
            /\ pre' = [pre EXCEPT ![p] = Published(r)]
            /\ Goto(p, "check")
     ELSE /\ req' = [req EXCEPT ![p] = GcReq]
          /\ Goto(p, "gclock")
          /\ UNCHANGED <<hk, pre>>
  /\ Cleared(p)
  /\ UNCHANGED <<tree, pub, txn, lock, loop, now, ncalls, expires_at, listing>>

\* the call that housekeeping() made is over: an exception of clean or gc ends
\* the run (nothing catches it), otherwise the loop goes on, and gc was the last call
HousekeepingResume(p) ==
  /\ pc[p] = "return"
  /\ hk[p].active
  /\ IF result[p] = FAILURE
     THEN /\ Goto(p, "hkend")
          /\ UNCHANGED hk
     ELSE /\ hk' = [hk EXCEPT ![p].done =
                 Append(@, IF req[p].op = "gc" THEN "gc" ELSE req[p].repo)]
          /\ Goto(p, IF req[p].op = "gc" THEN "hkend" ELSE "hk")
  /\ UNCHANGED <<tree, pub, txn, lock, loop, now, ncalls, req, expires_at, counts, result, trace, pre, listing>>

\* housekeeping() returns its message, or its exception goes to the caller
HousekeepingReturn(p) ==
  /\ pc[p] = "hkend"
  /\ hk' = [hk EXCEPT ![p] = NoRun]
  /\ req' = [req EXCEPT ![p] = NoReq]
  /\ pre' = [pre EXCEPT ![p] = EmptyTree]
  /\ Cleared(p)
  /\ Goto(p, "idle")
  /\ UNCHANGED <<tree, pub, txn, lock, loop, now, ncalls, expires_at, listing>>

\* a repository as an upload of a by p1 with ttl_s = 0 at time 0 published it
Stocked ==
  UploadIndexed(UploadStored(EmptyTree, [name |-> "a", unpack |-> FALSE, content |-> "c1"]),
                [name |-> "a"], 0)

\* every repository holds an artifact, and its lifetime has run out
InitFleet ==
  /\ tree = [r \in Repos |-> Stocked]
  /\ pub = tree
  /\ now = MaxTime
  /\ NoRequests

\* the requests that arrive while gc and housekeeping run: those on one repository
StartFleet(p) == \E r \in ConcRequests(p) : r.repo = "r1" /\ Dispatch(p, r)

\* requests, gc and housekeeping runs at the same time
NextFleet ==
  \E p \in Procs :
       \/ StartFleet(p)
       \/ StartGc(p)
       \/ StartHousekeeping(p)
       \/ Step(p)
       \/ GcAcquire(p)
       \/ Gc(p)
       \/ HousekeepingCall(p)
       \/ HousekeepingResume(p)
       \/ HousekeepingReturn(p)

FleetSpec == InitFleet /\ [][NextFleet]_vars

\* ------------------------------------------------------------- the sweep alone
\* The repository states a sweep can meet: any files, and an index over any of
\* the names, stale entries (no file) and untracked files (no entry) included.
SweepEntries ==
  UNION {[S -> [expires_at : 0..(MaxTime + 1)]] : S \in SUBSET Names}
SweepTrees ==
  [files : [Names -> {NoEntry, FileOf("c1")}],
   ttl : {NoIndex} \cup [exists : {TRUE}, entries : SweepEntries]]

InitSweep ==
  /\ \E t \in SweepTrees : tree = [r \in Repos |-> IF r = "r1" THEN t ELSE EmptyTree]
  /\ pub = tree
  /\ now \in 0..MaxTime
  /\ NoRequests

StartSweep(p) == \E r \in CleanReqs(Repos) : Dispatch(p, r)

NextSweep ==
  \E p \in Procs :
    \/ StartSweep(p)
    \/ Check(p)
    \/ Acquire(p)
    \/ Begin(p)
    \/ CleanBody(p)
    \/ Abort(p)
    \/ Publish(p)
    \/ Notify(p)
    \/ Exit(p)
    \/ Return(p)

SweepSpec == InitSweep /\ [][NextSweep]_vars

\* =================================================================== claims
\* p is between its successful begin and the completion of its publish or abort
InWindow(p) == pc[p] \in {"body", "read", "abort", "publish"}
OpenTransactions == {r \in Repos : txn[r]}
OtherThan(p) == Procs \ {p}

\* C1 as stated: at most one repository transaction is open system-wide at any
\* time, and while one request is between its successful begin and the
\* completion of its publish or abort no other request issues begin.
C1_AtMostOneOpenTransaction ==
  /\ Cardinality(OpenTransactions) <= 1
  /\ \A p \in Procs : InWindow(p) =>
       \A q \in OtherThan(p) : pc[q] # "begin" /\ ~InWindow(q)

\* C1 as amended: while one request is between its successful begin and the
\* completion (successful or failed) of its publish or abort, no other request
\* is about to issue begin or is inside a transaction of its own, on the same
\* or on another repository; the lock is held by the request in the window.
C1_WindowsNeverOverlap ==
  \A p \in Procs : InWindow(p) =>
    /\ lock = p
    /\ \A q \in OtherThan(p) : pc[q] # "begin" /\ ~InWindow(q)

\* one request is inside its transaction while a request for another repository waits for the lock
C1_Witness ==
  /\ pc["p1"] = "body"
  /\ pc["p2"] = "lock"
  /\ req["p1"].repo # req["p2"].repo

\* C4 as stated: whenever a request that issued a successful begin is about to
\* release the lock, its repository is no longer in a transaction, whatever the
\* outcome of the body and of publish and abort.
C4_ClosedBeforeRelease ==
  \A p \in Procs :
    pc[p] = "exit" /\ Succeeded(p, "begin") => ~txn[req[p].repo]

\* C4 as amended: a request that issued a successful begin has issued publish or
\* abort before it releases the lock, and its repository is out of the
\* transaction exactly when that publish or abort succeeded: a failed publish or
\* abort leaves the transaction open when the lock is released.
C4_ClosedUnlessPrimitiveFailed ==
  \A p \in Procs :
    pc[p] = "exit" /\ Succeeded(p, "begin") =>
      /\ lock = p
      /\ Issued(p, "publish") \/ Issued(p, "abort")
      /\ txn[req[p].repo] <=> ~(Succeeded(p, "publish") \/ Succeeded(p, "abort"))

\* the body raised, the abort succeeded and the lock is about to be released
C4_Witness ==
  \E p \in Procs :
    /\ pc[p] = "exit"
    /\ Succeeded(p, "abort")
    /\ ~txn[req[p].repo]
    /\ lock = p

\* C10: a body step that does not end in the publish position ends in the
\* except block with the lock held; the next step of the request issues the
\* forced abort, still under the lock, and only then is the error (500) set and
\* the with block left; a request that issued abort issued neither publish nor
\* notify.
C10_BodyFailureAborts ==
  /\ [][\A p \in Procs :
          /\ (pc[p] \in {"body", "read"} /\ pc'[p] \notin {"body", "read", "publish"})
               => (pc'[p] = "abort" /\ lock' = p /\ result'[p] = NoResult)
          /\ (pc[p] = "abort" /\ pc'[p] # "abort")
               => /\ lock = p /\ lock' = p
                  /\ trace'[p] = Append(trace[p], <<"abort", TRUE>>)
                       \/ trace'[p] = Append(trace[p], <<"abort", FALSE>>)
                  /\ pc'[p] = "exit"
                  /\ result'[p] = FAILURE]_vars
  /\ [](\A p \in Procs :
          /\ pc[p] = "abort" => lock = p /\ trace[p] = << <<"begin", TRUE>> >>
          /\ Issued(p, "abort") =>
               /\ ~Issued(p, "publish") /\ ~Issued(p, "notify")
               /\ result[p] = FAILURE
               /\ pc[p] \in {"exit", "return"})

\* the forced abort has been issued and the lock is still held
C10_Witness ==
  \E p \in Procs :
    /\ pc[p] = "exit"
    /\ Issued(p, "abort")
    /\ lock = p
    /\ result[p] = FAILURE

IsError(code) == code \in {FORBIDDEN, NOTFOUND, CONFLICT, FAILURE}
Rejections == {FORBIDDEN, NOTFOUND, CONFLICT}
ArtifactOps == {"upload", "update_ttl", "delete"}
IndexedNames(t) == DOMAIN t.ttl.entries
PresentNames(t) == {n \in Names : t.files[n] # NoEntry}

\* C2 as stated: a mutating request that is about to return an error, whatever
\* step produced it, leaves the published revision of its repository (artifacts
\* and TTL index) as it was when the request arrived.
C2_ErrorLeavesPublishedUnchanged ==
  \A p \in Procs :
    pc[p] = "return" /\ Mutating(req[p].op) /\ IsError(result[p])
      => Published(req[p].repo) = pre[p]

\* C2 as amended: a mutating request that is about to return an error produced
\* by a pre-check, begin, the body, abort or publish leaves the published
\* revision as it was when the request arrived; an error produced by notify is
\* returned after a successful publish.
C2_ErrorBeforeNotifyLeavesPublishedUnchanged ==
  \A p \in Procs :
    pc[p] = "return" /\ Mutating(req[p].op) /\ IsError(result[p]) =>
      /\ ~Issued(p, "notify") => Published(req[p].repo) = pre[p]
      /\ Issued(p, "notify") => Succeeded(p, "publish")

\* a delete of a published artifact failed in its body and was aborted
C2_Witness ==
  \E p \in Procs :
    /\ pc[p] = "return"
    /\ req[p].op = "delete"
    /\ result[p] = FAILURE
    /\ Succeeded(p, "abort")
    /\ PresentNames(pre[p]) # {}

\* C3: with the requests served one after another from empty repositories,
\* in every published revision the names with an index entry are exactly the
\* artifacts present (uploaded and not since deleted or swept); the working
\* tree agrees whenever no request is in flight and no transaction is open.
C3_IndexMatchesArtifacts ==
  \A r \in Repos :
    /\ IndexedNames(pub[r]) = PresentNames(pub[r])
    /\ ((\A p \in Procs : pc[p] = "idle") /\ ~txn[r])
         => IndexedNames(tree[r]) = PresentNames(tree[r])

\* three requests have been served; one artifact is left, with its entry
C3_Witness ==
  /\ \A p \in Procs : pc[p] = "idle"
  /\ ncalls >= 3
  /\ PresentNames(pub["r1"]) = {"b"}
  /\ IndexedNames(pub["r1"]) = {"b"}

\* C5: an upload without overwrite whose dest exists when it is tested ends at
\* that test with 409 and changes nothing; an upload with overwrite that
\* returns 200 has published its content and its TTL record under the name.
C5_OverwriteSemantics ==
  /\ [][\A p \in Procs :
          (/\ pc[p] = "check" /\ pc'[p] # "check"
           /\ req[p].op = "upload" /\ ~req[p].overwrite
           /\ req[p].name \in Names
           /\ PathExists(req[p].repo, req[p].name))
          => (/\ pc'[p] = "return"
              /\ result'[p] = CONFLICT
              /\ UNCHANGED <<tree, pub, txn, lock, trace>>)]_vars
  /\ [](\A p \in Procs :
          (/\ pc[p] = "return" /\ result[p] = OK
           /\ req[p].op = "upload" /\ req[p].overwrite)
          => LET t == pub[req[p].repo] IN
               /\ t.files[req[p].name] =
                    (IF req[p].unpack THEN <<"dir", req[p].content>> ELSE <<"file", req[p].content>>)
               /\ req[p].name \in IndexedNames(t)
               /\ t.ttl.entries[req[p].name] = [expires_at |-> expires_at[p]])

\* an upload with overwrite has replaced a published file and its TTL record by others
C5_Witness ==
  \E p \in Procs :
    /\ pc[p] = "return" /\ result[p] = OK
    /\ req[p].op = "upload" /\ req[p].overwrite
    /\ IsFile(pre[p].files[req[p].name])
    /\ pre[p].files[req[p].name] # pub[req[p].repo].files[req[p].name]
    /\ req[p].name \in IndexedNames(pre[p])
    /\ pre[p].ttl.entries[req[p].name] # pub[req[p].repo].ttl.entries[req[p].name]

\* C6: upload, update_ttl and delete of the name ttl.json never get past the
\* checks: they return 400 whatever the repository argument and its state.
C6_ReservedNameForbidden ==
  \A p \in Procs :
    (req[p].op \in ArtifactOps /\ req[p].name = TTL_FILENAME /\ pc[p] # "check")
      => pc[p] = "return" /\ result[p] = FORBIDDEN

\* ttl.json exists, and an upload of that name without overwrite got 400, not 409
C6_Witness ==
  \E p \in Procs :
    /\ req[p].op = "upload" /\ req[p].name = TTL_FILENAME /\ ~req[p].overwrite
    /\ req[p].repo = "r1" /\ TtlExists("r1")
    /\ result[p] = FORBIDDEN

\* C7: when the body of clean has run on an index, every entry that was
\* strictly in the past is gone, its artifact deleted if it was there (counted
\* in cleaned) or counted in errors if it was not; every other entry is kept
\* with its artifact, untracked files are kept, and no entry is added.
C7_SweepRemovesExactlyExpired ==
  \A p \in Procs :
    (pc[p] = "publish" /\ req[p].op = "clean") =>
      LET before == pub[req[p].repo]
          after == tree[req[p].repo]
          e == before.ttl.entries
          past == {n \in DOMAIN e : e[n].expires_at < now}
      IN /\ after.ttl.exists
         /\ IndexedNames(after) = (DOMAIN e) \ past
         /\ \A n \in past : after.files[n] = NoEntry
         /\ \A n \in (DOMAIN e) \ past :
              after.ttl.entries[n] = e[n] /\ after.files[n] = before.files[n]
         /\ \A n \in Names \ DOMAIN e : after.files[n] = before.files[n]
         /\ counts[p].cleaned = Cardinality(past \cap PresentNames(before))
         /\ counts[p].errors = Cardinality(past \ PresentNames(before))

\* the index {a: past, b: future} with both files there: a is deleted, b kept, cleaned=1, errors=0
C7_Witness ==
  \E p \in Procs :
    /\ pc[p] = "notify" /\ req[p].op = "clean"
    /\ PresentNames(pre[p]) = {"a", "b"}
    /\ IndexedNames(pre[p]) = {"a", "b"}
    /\ pre[p].ttl.entries["a"].expires_at < now
    /\ pre[p].ttl.entries["b"].expires_at > now
    /\ PresentNames(pub[req[p].repo]) = {"b"}
    /\ IndexedNames(pub[req[p].repo]) = {"b"}
    /\ counts[p] = [cleaned |-> 1, errors |-> 0]

\* C8: clean on a repository argument with no ttl.json ends at its first test:
\* it returns the no-op message, never takes the lock, issues no primitive and
\* changes neither tree nor published revision.
C8_NoIndexNoTransaction ==
  /\ [][\A p \in Procs :
          (/\ pc[p] = "check" /\ pc'[p] # "check"
           /\ req[p].op = "clean" /\ ~TtlExists(req[p].repo))
          => (/\ pc'[p] = "return"
              /\ result'[p] = NOOP
              /\ UNCHANGED <<tree, pub, txn, lock, trace>>)]_vars
  /\ [](\A p \in Procs :
          result[p] = NOOP =>
            /\ req[p].op = "clean" /\ pc[p] = "return"
            /\ trace[p] = <<>> /\ lock # p)

\* clean of an existing repository without index has returned the no-op message
C8_Witness ==
  \E p \in Procs :
    /\ pc[p] = "return" /\ result[p] = NOOP
    /\ req[p].op = "clean" /\ req[p].repo \in Repos
    /\ ~TtlExists(req[p].repo)

\* C9: upload, update_ttl and delete get 400, 404 or 409 only from the checks
\* before the lock: the step that sets such a response is the check, it changes
\* no tree, published revision, transaction or lock, and the request has then
\* issued no primitive and does not hold the lock.
C9_RejectedBeforeLock ==
  /\ [][\A p \in Procs :
          (/\ req'[p].op \in ArtifactOps
           /\ result[p] = NoResult /\ result'[p] \in Rejections)
          => (/\ pc[p] = "check" /\ pc'[p] = "return"
              /\ UNCHANGED <<tree, pub, txn, lock, trace>>)]_vars
  /\ [](\A p \in Procs :
          (req[p].op \in ArtifactOps /\ result[p] \in Rejections)
            => pc[p] = "return" /\ trace[p] = <<>> /\ lock # p)

\* a delete of a name that is not in an existing repository got 404
C9_Witness ==
  \E p \in Procs :
    /\ pc[p] = "return" /\ result[p] = NOTFOUND
    /\ req[p].op = "delete" /\ req[p].repo \in Repos
    /\ trace[p] = <<>>

\* the calls of one primitive that p's request has made
Calls(p, primitive) == {i \in DOMAIN trace[p] : trace[p][i][1] = primitive}
Failed(p, primitive) == \E i \in DOMAIN trace[p] : trace[p][i] = <<primitive, FALSE>>

\* C11: a mutating request calls the notification primitive at most once, and
\* only as the call that follows its successful publish; once its publish has
\* succeeded and control has left the with block, it has called it exactly
\* once; a request whose transaction was aborted, or whose begin or publish
\* failed, never calls it.
C11_NotifyOncePerPublish ==
  \A p \in Procs :
    Mutating(req[p].op) =>
      /\ Cardinality(Calls(p, "notify")) <= 1
      /\ \A i \in Calls(p, "notify") : i > 1 /\ trace[p][i - 1] = <<"publish", TRUE>>
      /\ (pc[p] \in {"exit", "return"} /\ Succeeded(p, "publish"))
            => Cardinality(Calls(p, "notify")) = 1
      /\ (Issued(p, "abort") \/ Failed(p, "begin") \/ Failed(p, "publish"))
            => ~Issued(p, "notify")

\* a delete has published and notified once, and is about to return 200
C11_Witness ==
  \E p \in Procs :
    /\ pc[p] = "return" /\ result[p] = OK
    /\ req[p].op = "delete"
    /\ trace[p] = <<(<<"begin", TRUE>>), (<<"publish", TRUE>>), (<<"notify", TRUE>>)>>

\* C12: the names that list_files returns for an existing repository are
\* exactly the names of its regular files other than ttl.json.
C12_ListingExcludesIndex ==
  \A p \in Procs :
    (pc[p] = "return" /\ req[p].op = "list_files" /\ result[p] = OK)
      => listing[p] = {n \in Names : IsFile(tree[req[p].repo].files[n])}

\* C13: when a run of housekeeping() ends, it has called clean for every
\* repository directory and then gc, once, as its last call.
C13_EveryRunSweepsAllThenGc ==
  \A p \in Procs :
    pc[p] = "hkend" => hk[p].todo = {} /\ req[p].op = "gc"

\* p, in a run of housekeeping(), is inside a call of clean or gc and past its
\* acquisition of the lock
InLockedCall(p) ==
  hk[p].active /\ pc[p] \in {"begin", "body", "abort", "publish", "notify", "exit", "gc"}
\* p's run has completed a call and has not come to its end
MidRun(p) == Len(hk[p].done) > 0 /\ pc[p] # "hkend"

\* C14 as stated: two runs of housekeeping() are never both between their
\* first completed call and their end, so their steps never interleave.
C14_RunsNeverInterleave ==
  \A p \in Procs : \A q \in OtherThan(p) : ~(MidRun(p) /\ MidRun(q))

\* C14 as amended: a run that is inside a sweep's locked section or inside gc
\* holds the lock, and no other run is inside such a section at the same time
\* (the runs themselves may overlap, call by call).
C14_CallsOfRunsExclusive ==
  \A p \in Procs :
    InLockedCall(p) =>
      /\ lock = p
      /\ \A q \in OtherThan(p) : ~InLockedCall(q)

\* two runs overlap: one is inside the transaction of a sweep, the other has
\* swept that repository already and waits for the lock with its next sweep
C14_Witness ==
  \E p \in Procs : \E q \in OtherThan(p) :
    /\ InLockedCall(p) /\ pc[p] = "body"
    /\ MidRun(q) /\ pc[q] = "lock"
    /\ \E i \in DOMAIN hk[q].done : hk[q].done[i] = req[p].repo

\* C18: while gc runs the garbage-collection primitive it holds the lock, no
\* upload, update_ttl, delete or clean is between its begin and the end of its
\* publish or abort, and no other request issues a primitive (begin included)
\* in a step taken meanwhile.
C18_GcExcludesTransactions ==
  /\ [](\A p \in Procs :
          pc[p] = "gc" =>
            /\ lock = p
            /\ \A q \in OtherThan(p) : ~InWindow(q) /\ pc[q] # "gc")
  /\ [][\A p \in Procs :
          pc[p] = "gc" => \A q \in OtherThan(p) : Len(trace'[q]) <= Len(trace[q])]_vars

\* gc runs its primitive while a delete that passed its checks waits for the lock
C18_Witness ==
  \E p \in Procs : \E q \in OtherThan(p) :
    /\ pc[p] = "gc" /\ ~hk[p].active
    /\ pc[q] = "lock" /\ req[q].op = "delete"

\* C15: the body of update_ttl sets the entry of its name to now + ttl_s, and
\* an update_ttl whose publish succeeded has published a revision that differs
\* from the one it found in that entry alone: every artifact, the one named
\* included, and every other entry are as they were.
C15_UpdateTtlChangesOnlyItsEntry ==
  /\ [][\A p \in Procs :
          (req[p].op = "update_ttl" /\ pc[p] = "body" /\ pc'[p] = "publish")
            => tree'[req[p].repo].ttl.entries[req[p].name].expires_at = now + req[p].ttl_s]_vars
  /\ [](\A p \in Procs :
          (req[p].op = "update_ttl" /\ Succeeded(p, "publish")) =>
            LET after == pub[req[p].repo] IN
              /\ after.files = pre[p].files
              /\ after.ttl.exists
              /\ IndexedNames(after) = IndexedNames(pre[p]) \cup {req[p].name}
              /\ \A n \in IndexedNames(pre[p]) \ {req[p].name} :
                    after.ttl.entries[n] = pre[p].ttl.entries[n])

\* an update_ttl has given one of two indexed artifacts another expiry
C15_Witness ==
  \E p \in Procs :
    /\ pc[p] = "return" /\ result[p] = OK /\ req[p].op = "update_ttl"
    /\ IndexedNames(pre[p]) = {"a", "b"}
    /\ PresentNames(pre[p]) = {"a", "b"}
    /\ pub[req[p].repo].ttl.entries[req[p].name] # pre[p].ttl.entries[req[p].name]

\* C16: an upload or an update_ttl whose body runs in a repository with no
\* ttl.json can complete, and when it completes the index it has written
\* holds the entry of its artifact and no other.
C16_MissingIndexReadsAsEmpty ==
  \A p \in Procs :
    (/\ pc[p] \in {"body", "read"}
     /\ req[p].op \in {"upload", "update_ttl"}
     /\ ~TtlExists(req[p].repo))
      => ENABLED (/\ Step(p)
                  /\ pc'[p] \in {"read", "publish"}
                  /\ pc'[p] = "publish" =>
                       /\ TtlExists(req[p].repo)'
                       /\ IndexedNames(tree'[req[p].repo]) = {req[p].name})

\* p's request is past its call of begin
PastBegin(p) == pc[p] \in {"body", "read", "abort", "publish", "notify"} \/ Issued(p, "begin")

\* C17: a mutating request has issued nothing before its begin and issues
\* begin once, as its first primitive, and no primitive twice; after a failed
\* begin it has issued nothing else, its body does not run, the failure is its
\* response and the lock is released before it returns; after a successful
\* begin, once it is past publish and abort, it has issued exactly one of them.
C17_OneBeginThenPublishOrAbort ==
  /\ [](\A p \in Procs :
          Mutating(req[p].op) =>
            /\ \A x \in {"begin", "publish", "abort", "notify"} : Cardinality(Calls(p, x)) <= 1
            /\ pc[p] \in {"check", "lock", "begin"} => trace[p] = <<>>
            /\ PastBegin(p) => trace[p][1][1] = "begin"
            /\ Failed(p, "begin") =>
                  /\ trace[p] = <<(<<"begin", FALSE>>)>>
                  /\ pc[p] \in {"exit", "return"}
                  /\ result[p] = FAILURE
                  /\ pc[p] = "return" => lock # p
            /\ (Succeeded(p, "begin") /\ pc[p] \in {"notify", "exit", "return"})
                  => (Issued(p, "publish") /\ ~Issued(p, "abort"))
                       \/ (Issued(p, "abort") /\ ~Issued(p, "publish")))
  /\ [][\A p \in Procs :
          (Mutating(req[p].op) /\ Failed(p, "begin")' /\ pc'[p] # pc[p])
            => UNCHANGED <<tree, pub, txn>>]_vars

\* the begin of a clean has failed: nothing else was issued, the lock is free again
C17_Witness ==
  \E p \in Procs :
    /\ pc[p] = "return" /\ req[p].op = "clean"
    /\ trace[p] = <<(<<"begin", FALSE>>)>>
    /\ result[p] = FAILURE
    /\ lock = NoProc

\* C19: there is no circular wait. Whenever the lock is held, its holder can
\* take its next step, or the coroutine that has the event loop instead of it
\* can take its next step (and so goes on towards handing the loop back).
C19_NoCircularWait ==
  \A p \in Procs :
    lock = p =>
      \/ ENABLED Step(p)
      \/ \E q \in OtherThan(p) : loop = q /\ ENABLED Step(q)

\* p is an upload without overwrite that has passed its checks and not been refused
AdmittedUpload(p) ==
  /\ req[p].op = "upload" /\ ~req[p].overwrite
  /\ \/ pc[p] \in {"lock", "begin", "body", "read", "abort", "publish", "notify", "exit"}
     \/ pc[p] = "return" /\ result[p] \notin Rejections

C21_PublishedIndexNamesOnlyArtifacts ==
  \A r \in Repos : IndexedNames(pub[r]) \subseteq PresentNames(pub[r])

====
